---- MODULE Spec2Model ----
(***************************************************************************)
(* cloudflare-router: the route tree (Router / Route / RoutePath), the     *)
(* request dispatch (serveRequest / processRequest / executeMiddleware /   *)
(* finishResponse) and the response state (RouterResponse).                *)
(*                                                                         *)
(* The source tree holds two revisions of the v2 router:                   *)
(*   rev = "A"  src/src/router/{Router,Route,RoutePath,RouterRequest}.ts   *)
(*   rev = "B"  src/unnamed/part_000 (Route), part_001 (RouterRequest,     *)
(*              Router), part_002 (RouterResponse)                         *)
(* A behaviour fixes the revision in its first state; every definition     *)
(* that differs between the two branches on rev.                           *)
(*                                                                         *)
(* Strings are sequences of one-character strings.                         *)
(***************************************************************************)
EXTENDS Integers, Sequences, FiniteSets, TLC

VARIABLES
    rev,             \* which revision of the sources runs
    options,         \* the options each Router was constructed with
    customResponseBuilder, \* Router.customResponseBuilder, per router: set or not
    basePath,        \* Router.basePath, per router
    parentRouter,    \* Router.parentRouter, per router: {} (null) or {parent}
    isMainRouter,    \* Router.isMainRouter, per router
    routes,          \* Router.routes, per router
    lastRouteIndex,  \* Route.ts: let lastRouteIndex
    regCount,        \* number of function handlers registered so far (handler identity)
    pc,              \* position of the dispatch of the current request
    serving,         \* router serveRequest was called on
    request,         \* RouterRequest: method, path, matchedParams, matchedRoute
    response,        \* RouterResponse: responseOptions, matchedRoute, locals
    chain,           \* processRequest: orderedMiddlewareList
    idx,             \* processRequest: loop index i (1-based)
    allMiddlewaresSuccessful, \* processRequest: the local of that name
    pendingArg,      \* argument of the continuation callback not yet delivered
    invoked,         \* handlers actually called for this request, in call order
    handlerOps,      \* number of response methods the running response handler called
    builderCalls,    \* number of calls of customResponseBuilder for the current request
    built,           \* what each build() call on the current response returned, in order
    suspended,           \* the dispatch of a second request in flight, suspended at an await
    result           \* settlement of the promise serveRequest returned

vars == <<rev, options, customResponseBuilder, basePath, parentRouter, isMainRouter, routes, lastRouteIndex, regCount,
          pc, serving, request, response, chain, idx, allMiddlewaresSuccessful,
          pendingArg, invoked, handlerOps, builderCalls, built, suspended, result>>

configVars == <<rev, options, customResponseBuilder>>
treeVars == <<basePath, parentRouter, routes, lastRouteIndex, regCount>>
dispatchVars == <<pc, serving, request, response, chain, idx, allMiddlewaresSuccessful,
                  pendingArg, invoked, handlerOps, builderCalls, built, result>>
buildVars == <<builderCalls, built>>

-----------------------------------------------------------------------------
(* Bounds of the model *)

\* Routers are 0..MaxRouter; router c is only ever mounted on router c-1.
MaxRouter == 1
\* The routers of the specification of the route tree alone are 0..MaxTreeRouter.
MaxTreeRouter == 2
\* A response handler calls at most MaxHandlerOps methods of its RouterResponse.
MaxHandlerOps == 3
\* At most MaxMainRoutes registration calls are made before the main router is set.
MaxMainRoutes == 3
\* At most MaxConcurrentRoutes registration calls are made before two requests are served.
MaxConcurrentRoutes == 2
\* At most MaxRouterRoutes registration calls are made on the tree with routes
\* that lead into a router.
MaxRouterRoutes == 4
\* build() is called at most MaxBuilds times on one response state.
MaxOrderRouter == 5
MaxRepeats == 2
MaxRepeatRoutes == 3
MaxBuilds == 3
\* At most MaxResponseRoutes registration calls are made before a response is built.
MaxResponseRoutes == 2
\* At most MaxRoutes registration calls (use / get / any / post) are made.
MaxRoutes == 4

Routers == 0..MaxRouter
Revisions == {"A", "B"}
Null == "null"

-----------------------------------------------------------------------------
(* Strings *)

Str1(a) == <<a>>
Last(s) == s[Len(s)]
EndsWith(s, c) == Len(s) > 0 /\ Last(s) = c
StartsWith(s, c) == Len(s) > 0 /\ Head(s) = c
Slice1(s) == SubSeq(s, 2, Len(s))
Drop(s, k) == SubSeq(s, k + 1, Len(s))

\* Router.ts: const NO_APPEND_SLASH_IF_CHARACTERS
NO_APPEND_SLASH_IF_CHARACTERS == {"*", ")", "?"}

\* Router.fixPath with this.basePath = base
fixPath(base, inputPath) ==
    LET fixedPath == base \o (IF StartsWith(inputPath, "/") THEN Slice1(inputPath) ELSE inputPath)
    IN  IF ~EndsWith(fixedPath, "/")
           /\ ~(\E char \in NO_APPEND_SLASH_IF_CHARACTERS : EndsWith(fixedPath, char))
        THEN fixedPath \o <<"/">>
        ELSE fixedPath

\* RouterRequest.fixRequestUrl followed by new URL(url).pathname, on the path and
\* query part of the url: a "/" is inserted before the "?" (or at the end) unless
\* one is there, and the pathname is what precedes the "?".
IndexOfQ(url) ==
    IF \E i \in 1..Len(url) : url[i] = "?"
    THEN CHOOSE i \in 1..Len(url) : url[i] = "?" /\ \A j \in 1..(i - 1) : url[j] # "?"
    ELSE Len(url) + 1

\* (mutant) fixRequestUrl leaving the url as it came
fixRequestUrl_Identity(url) == url

fixRequestUrl(url) ==
    LET endIndex == IndexOfQ(url)
        before == SubSeq(url, 1, endIndex - 1)
        after == SubSeq(url, endIndex, Len(url))
    IN  IF ~EndsWith(before, "/") THEN before \o <<"/">> \o after ELSE url

pathname(url) == SubSeq(url, 1, IndexOfQ(url) - 1)

\* RouterRequest constructor: this.path
RequestPath(url) == pathname(fixRequestUrl(url))

\* url-pattern, as RoutePath.createPatternFromPath / matchesInputPath use it:
\* a literal character matches itself, "*" matches any (possibly empty) string,
\* ":name" matches one or more characters of a path segment.
NameChars == {"a", "b", "s", "p", "q"}
SegmentChars == NameChars \cup {"1", "2", "-", "_", "~", " ", "%"}

RECURSIVE SkipName(_)
SkipName(p) == IF Len(p) > 0 /\ Head(p) \in NameChars THEN SkipName(Tail(p)) ELSE p

RECURSIVE PatternMatches(_, _)
PatternMatches(p, s) ==
    IF Len(p) = 0 THEN Len(s) = 0
    ELSE IF Head(p) = "*"
         THEN \E k \in 0..Len(s) : PatternMatches(Tail(p), Drop(s, k))
    ELSE IF Head(p) = ":"
         THEN \E k \in 1..Len(s) :
                 /\ \A i \in 1..k : s[i] \in SegmentChars
                 /\ PatternMatches(SkipName(Tail(p)), Drop(s, k))
    ELSE Len(s) > 0 /\ Head(s) = Head(p) /\ PatternMatches(Tail(p), Tail(s))

\* The name of the named segment p starts with (p is what follows the ":")
RECURSIVE NameOf(_)
NameOf(p) == IF Len(p) > 0 /\ Head(p) \in NameChars THEN <<Head(p)>> \o NameOf(Tail(p)) ELSE <<>>

Max(S) == CHOOSE x \in S : \A y \in S : y <= x
Least(S) == CHOOSE x \in S : \A y \in S : x <= y

\* url-pattern's match(path) when the pattern matches: the captured values in
\* pattern order, a named segment under its name (its group ([...]+) is greedy),
\* a wildcard under "_" (its group (.*?) is lazy)
RECURSIVE MatchParams(_, _)
MatchParams(p, s) ==
    IF Len(p) = 0 THEN <<>>
    ELSE IF Head(p) = "*"
         THEN LET k == Least({ j \in 0..Len(s) : PatternMatches(Tail(p), Drop(s, j)) })
              IN  <<[name |-> <<"_">>, value |-> SubSeq(s, 1, k)]>>
                  \o MatchParams(Tail(p), Drop(s, k))
    ELSE IF Head(p) = ":"
         THEN LET k == Max({ j \in 1..Len(s) :
                              /\ \A i \in 1..j : s[i] \in SegmentChars
                              /\ PatternMatches(SkipName(Tail(p)), Drop(s, j)) })
              IN  <<[name |-> NameOf(Tail(p)), value |-> SubSeq(s, 1, k)]>>
                  \o MatchParams(SkipName(Tail(p)), Drop(s, k))
    ELSE MatchParams(Tail(p), Tail(s))

-----------------------------------------------------------------------------
(* Routes *)

\* A handler is a function (kind "fn", identified by id, declared in form
\* "explicit" = with the continuation callback parameter, or "auto" = without)
\* or a Router (kind "router", id = the router).
FnHandler(id, form) == [kind |-> "fn", id |-> id, form |-> form]
RouterHandler(r) == [kind |-> "router", id |-> r, form |-> "none"]

\* The routeIndex option of RouteOptions: absent (undefined), or a number
NoIndex == [given |-> FALSE, value |-> 0]
GivenIndex(i) == [given |-> TRUE, value |-> i]

\* Route constructor: options.routeIndex || lastRouteIndex++
\* (|| takes the right side when the left is undefined or 0)
RouteIndexFor(optIndex, last) ==
    IF optIndex.given /\ optIndex.value # 0 THEN optIndex.value ELSE last

LastIndexAfter(optIndex, last) ==
    IF optIndex.given /\ optIndex.value # 0 THEN last ELSE last + 1

\* new Route(router, options), with RoutePath's constructor
NewRoute(r, base, path, method, handler, isMw, optIndex, last) ==
    [ router          |-> r,
      method          |-> method,
      inputPath       |-> path,
      fixedPath       |-> fixPath(base, path),
      handler         |-> handler,
      isMiddleware    |-> isMw,
      isHandlerRouter |-> (handler.kind = "router"),
      routeIndex      |-> RouteIndexFor(optIndex, last) ]

\* Router.updateSelfRoutes: the routes of router r rebuilt under base; the result
\* is <<new routes, new lastRouteIndex>>
RECURSIVE UpdateRoutes(_, _, _, _)
UpdateRoutes(r, base, old, last) ==
    IF Len(old) = 0 THEN <<old, last>>
    ELSE LET o == Head(old)
             n == NewRoute(r, base, o.inputPath, o.method, o.handler, o.isMiddleware,
                           GivenIndex(o.routeIndex), last)
             rest == UpdateRoutes(r, base, Tail(old),
                                  LastIndexAfter(GivenIndex(o.routeIndex), last))
         IN  << <<n>> \o rest[1], rest[2] >>

-----------------------------------------------------------------------------
(* Inputs of the registration calls and of the requests *)

UsePaths == { <<"/", "*">> }
MountPaths == { <<"/", "s">> }
HandlerPaths == { <<"/", "a">>, <<"/", "*">> }
RouteMethods == {"GET"}
RequestMethods == {"GET", "POST"}
RequestUrls == { <<"/", "a">>, <<"/", "s", "/", "a">> }
Forms == {"explicit", "auto"}

-----------------------------------------------------------------------------
(* Request and response objects *)

NoRoute == [ router |-> 0, method |-> Null, inputPath |-> <<>>, fixedPath |-> <<>>,
             handler |-> [kind |-> Null, id |-> 0, form |-> "none"],
             isMiddleware |-> FALSE, isHandlerRouter |-> FALSE, routeIndex |-> 0 ]

\* RouterRequest constructor (matchedRoute = null is hasMatchedRoute = FALSE)
NewRequest(method, url) ==
    [ incomingUrl |-> url, method |-> method, path |-> RequestPath(url),
      matchedParams |-> <<>>, hasMatchedRoute |-> FALSE, matchedRoute |-> NoRoute ]

NoRequest ==
    [ incomingUrl |-> <<>>, method |-> Null, path |-> <<>>,
      matchedParams |-> <<>>, hasMatchedRoute |-> FALSE, matchedRoute |-> NoRoute ]

\* (mutant) a RouterResponse constructor handing out the responseOptions object
\* of the request served before
NewResponse_Shared ==
    IF suspended.pc = "idle"
    THEN [ type |-> "normal", status |-> "OK", statusCode |-> 200,
           contentType |-> Null, body |-> "undefined",
           redirectToUrl |-> Null, redirectStatusCode |-> 0,
           customResponse |-> Null,
           tasks |-> <<>>,
           hasMatchedRoute |-> FALSE, matchedRoute |-> NoRoute,
           hasLocals |-> (rev = "B"), locals |-> {} ]
    ELSE [ suspended.response EXCEPT !.hasMatchedRoute = FALSE, !.matchedRoute = NoRoute ]

\* RouterResponse constructor. Revision A's class (router/Route.ts:121-154) has
\* no locals field: hasLocals = FALSE stands for response.locals === undefined.
NewResponse ==
    [ type |-> "normal", status |-> "OK", statusCode |-> 200,
      contentType |-> Null, body |-> "undefined",
      redirectToUrl |-> Null, redirectStatusCode |-> 0,
      customResponse |-> Null,
      tasks |-> <<>>,
      hasMatchedRoute |-> FALSE, matchedRoute |-> NoRoute,
      hasLocals |-> (rev = "B"), locals |-> {} ]

NoResponse ==
    [ type |-> Null, status |-> Null, statusCode |-> 0,
      contentType |-> Null, body |-> Null,
      redirectToUrl |-> Null, redirectStatusCode |-> 0,
      customResponse |-> Null,
      tasks |-> <<>>,
      hasMatchedRoute |-> FALSE, matchedRoute |-> NoRoute,
      hasLocals |-> FALSE, locals |-> {} ]

\* RouterResponse.statusCode / status / json / text
SetStatusCode(res, code) == [res EXCEPT !.statusCode = code]
SetStatus(res, text) == [res EXCEPT !.status = text]
Json(res, data) == [res EXCEPT !.body = data, !.contentType = "application/json"]

\* (mutant) text turning the response back into a normal one
Text_ResetsType(res, text) ==
    [res EXCEPT !.body = text, !.contentType = "text/plain", !.type = "normal"]

Text(res, text) == [res EXCEPT !.body = text, !.contentType = "text/plain"]

\* (mutant) addTasks keeping only the tasks of the last call
AddTasks_Replace(res, tasks) == [res EXCEPT !.tasks = tasks]

\* RouterResponse.addTasks: tasks = [...tasks, ...added]
AddTasks(res, tasks) == [res EXCEPT !.tasks = @ \o tasks]

\* A deferred task, named after the handler that adds it and its n-th addTasks call
Task(id, n) == [by |-> id, n |-> n]

\* RouterResponse.setContentType
SetContentType(res, contentType) == [res EXCEPT !.contentType = contentType]

\* The redirectStatusCode argument of redirectTo: omitted, or a number
NoCode == [given |-> FALSE, value |-> 0]
GivenCode(c) == [given |-> TRUE, value |-> c]

\* RouterResponse.redirectTo(redirectUrl, redirectStatusCode = 302)
DefaultRedirectStatusCode == 302
RedirectTo(res, redirectUrl, code) ==
    [res EXCEPT !.type = "redirect",
                !.redirectToUrl = redirectUrl,
                !.redirectStatusCode = IF code.given THEN code.value
                                       ELSE DefaultRedirectStatusCode]

\* RouterResponse.setCustomResponse (responseOptions.type is left as it is)
SetCustomResponse(res, customResponse) == [res EXCEPT !.customResponse = customResponse]

\* The value RouterResponse.build computes for its response field
\* (new Response(body, transformResponseOptions()), Response.redirect(url, code),
\* or responseOptions.customResponse)
FinalResponse(res) ==
    IF res.type = "redirect"
    THEN [ kind |-> "redirect", status |-> res.redirectStatusCode, statusText |-> Null,
           contentType |-> Null, body |-> res.redirectToUrl ]
    ELSE IF res.type = "normal"
    THEN [ kind |-> "response", status |-> res.statusCode, statusText |-> res.status,
           contentType |-> res.contentType, body |-> res.body ]
    ELSE [ kind |-> "custom", status |-> 0, statusText |-> Null,
           contentType |-> Null, body |-> res.customResponse ]

\* The value of customResponseBuilder(routerResponse): a function of the response
\* state it is given (the tests' builder returns routerResponse.responseOptions)
BuilderValue(res) ==
    [ kind |-> "built", status |-> res.statusCode, statusText |-> res.status,
      contentType |-> res.contentType, body |-> res.body ]

\* The promise serveRequest returns: not called yet ("none"), pending, resolved
\* with the built artifact, or rejected with an error
NoArtifact == [ kind |-> Null, status |-> 0, statusText |-> Null, contentType |-> Null, body |-> Null ]
NoResult == [ state |-> "none", response |-> NoArtifact, tasks |-> <<>>, error |-> Null ]
Pending == [ state |-> "pending", response |-> NoArtifact, tasks |-> <<>>, error |-> Null ]
Rejected(e) == [ state |-> "rejected", response |-> NoArtifact, tasks |-> <<>>, error |-> e ]
Resolved(res) ==
    [ state |-> "resolved", response |-> FinalResponse(res), tasks |-> res.tasks, error |-> Null ]

\* The dispatch of one request: the locals of its serveRequest / processRequest
\* call and the objects made for it. Before any request is served:
IdleContext ==
    [ pc |-> "idle", serving |-> 0, request |-> NoRequest, response |-> NoResponse,
      chain |-> <<>>, idx |-> 0, allMiddlewaresSuccessful |-> TRUE, pendingArg |-> Null,
      invoked |-> <<>>, handlerOps |-> 0, builderCalls |-> 0, built |-> <<>>,
      result |-> NoResult ]

-----------------------------------------------------------------------------
(* Registration *)

\* The options a Router is constructed with: new Router() and
\* new Router({ customResponseBuilder })
NoOptions == [customResponseBuilder |-> FALSE]
BuilderOptions == [customResponseBuilder |-> TRUE]

\* The state after the routers rs are constructed, router r with the options opts[r].
\* Revision B's constructor stores options.customResponseBuilder (part_001:139),
\* revision A's does not (router/Router.ts:54-61).
Construct(rs, opts) ==
    /\ rev \in Revisions
    /\ options = opts
    /\ customResponseBuilder = [r \in rs |-> rev = "B" /\ opts[r].customResponseBuilder]
    /\ basePath = [r \in rs |-> <<"/">>]
    /\ parentRouter = [r \in rs |-> {}]
    /\ isMainRouter = [r \in rs |-> FALSE]
    /\ routes = [r \in rs |-> <<>>]
    /\ lastRouteIndex = 0
    /\ regCount = 0
    /\ pc = "idle"
    /\ serving = 0
    /\ request = NoRequest
    /\ response = NoResponse
    /\ chain = <<>>
    /\ idx = 0
    /\ allMiddlewaresSuccessful = TRUE
    /\ pendingArg = Null
    /\ invoked = <<>>
    /\ handlerOps = 0
    /\ builderCalls = 0
    /\ built = <<>>
    /\ suspended = IdleContext
    /\ result = NoResult

\* The state after the routers rs are constructed (new Router(), no options)
InitWith(rs) == Construct(rs, [r \in rs |-> NoOptions])

Init == InitWith(Routers)

\* Registration is finished before the first request is served.
CanRegister == pc = "idle" /\ suspended.pc = "idle" /\ regCount < MaxRoutes

\* Router.createRouteAndAdd on router r, given the routes and counter to start from
AddRoute(r, rts, base, path, method, handler, isMw, last) ==
    Append(rts, NewRoute(r, base, path, method, handler, isMw, NoIndex, last))

\* Router.use: the path the route (and a mounted router's init) is given
UsePath(r, arg0) == IF rev = "B" THEN fixPath(basePath[r], arg0) ELSE arg0

\* (mutant) Router.init leaving the mounted router at the base path "/"
InitBasePath_Root(newBasePath) == <<"/">>

\* Router.init: the new base path: this.basePath = "/"; this.fixPath(newBasePath || "/")
InitBasePath(newBasePath) ==
    fixPath(<<"/">>, IF Len(newBasePath) = 0 THEN <<"/">> ELSE newBasePath)

\* Router.init: revision B rebuilds the routes (updateSelfRoutes), revision A does not
InitRoutes(c, newBase, last) ==
    IF rev = "B" THEN UpdateRoutes(c, newBase, routes[c], last) ELSE <<routes[c], last>>

\* router.use(path, fn): a function middleware
UseFn(r, path, form) ==
    /\ CanRegister
    /\ routes' = [routes EXCEPT ![r] =
                    AddRoute(r, @, basePath[r], UsePath(r, path), "ANY",
                             FnHandler(regCount, form), TRUE, lastRouteIndex)]
    /\ lastRouteIndex' = lastRouteIndex + 1
    /\ regCount' = regCount + 1
    /\ UNCHANGED <<configVars, suspended, basePath, parentRouter, isMainRouter, dispatchVars>>

\* router.use(path, child) on router child - 1: init the child, then add the mount route
UseRouter(c, path) ==
    LET r == c - 1
        usePath == UsePath(r, path)
        newBase == InitBasePath(usePath)
        upd == InitRoutes(c, newBase, lastRouteIndex)
    IN  /\ CanRegister
        /\ basePath' = [basePath EXCEPT ![c] = newBase]
        /\ parentRouter' = [parentRouter EXCEPT ![c] = {r}]
        /\ routes' = [routes EXCEPT
                        ![c] = upd[1],
                        ![r] = AddRoute(r, @, basePath[r], usePath, "ANY",
                                        RouterHandler(c), TRUE, upd[2])]
        /\ lastRouteIndex' = upd[2] + 1
        /\ regCount' = regCount + 1
        /\ UNCHANGED <<configVars, suspended, isMainRouter, dispatchVars>>

\* router.get / router.any (and post, options, head, delete): a response handler
Register(r, method, path) ==
    /\ CanRegister
    /\ routes' = [routes EXCEPT ![r] =
                    AddRoute(r, @, basePath[r], path, method,
                             FnHandler(regCount, "auto"), FALSE, lastRouteIndex)]
    /\ lastRouteIndex' = lastRouteIndex + 1
    /\ regCount' = regCount + 1
    /\ UNCHANGED <<configVars, suspended, basePath, parentRouter, isMainRouter, dispatchVars>>

\* router.get(path, child) on router child - 1: a per-method call given a Router
\* as its handler; the child is not initialised
RegisterRouter(c, method, path) ==
    LET r == c - 1
    IN  /\ CanRegister
        /\ routes' = [routes EXCEPT ![r] =
                        AddRoute(r, @, basePath[r], path, method,
                                 RouterHandler(c), FALSE, lastRouteIndex)]
        /\ lastRouteIndex' = lastRouteIndex + 1
        /\ regCount' = regCount + 1
        /\ UNCHANGED <<configVars, suspended, basePath, parentRouter, isMainRouter,
                       dispatchVars>>

-----------------------------------------------------------------------------
(* Dispatch *)

\* (mutant) matchesRequest without the comparison of the methods
matchesRequest_AnyMethod(route, req) == PatternMatches(route.fixedPath, req.path)

\* Route.matchesRequest: pathMatches
matchesRequest(route, req) ==
    /\ PatternMatches(route.fixedPath, req.path)
    /\ (route.method = "ANY" \/ route.method = req.method)

\* (mutant) findMatchingRoutes also emitting the matching routes that lead into
\* a router
RECURSIVE findMatchingIn_RouterToo(_, _)
findMatchingIn_RouterToo(rts, req) ==
    IF Len(rts) = 0 THEN <<>>
    ELSE LET route == Head(rts)
         IN  (IF matchesRequest(route, req) THEN <<route>> ELSE <<>>)
             \o (IF route.isHandlerRouter
                 THEN findMatchingIn_RouterToo(routes[route.handler.id], req)
                 ELSE <<>>)
             \o findMatchingIn_RouterToo(Tail(rts), req)

\* Router.findMatchingRoutes, over the routes rts of one router
RECURSIVE findMatchingIn(_, _)
findMatchingIn(rts, req) ==
    IF Len(rts) = 0 THEN <<>>
    ELSE LET route == Head(rts)
         IN  (IF route.isHandlerRouter
              THEN findMatchingIn(routes[route.handler.id], req)
              ELSE IF matchesRequest(route, req) THEN <<route>> ELSE <<>>)
             \o findMatchingIn(Tail(rts), req)

findMatchingRoutes(r, req) == findMatchingIn(routes[r], req)

\* processRequest: foundMiddlewares
foundMiddlewares(found) ==
    LET IsFnMiddleware(route) == route.isMiddleware /\ ~route.isHandlerRouter
    IN  SelectSeq(found, IsFnMiddleware)

\* (mutant) every matching route taken as a candidate for responseHandler
responseHandlers_Any(found) == found

\* (mutant) the candidates for responseHandler, lowest sequence number first
responseHandlers_BySequence(found) ==
    LET IsHandler(route) == ~route.isMiddleware
        hs == SelectSeq(found, IsHandler)
    IN  IF Len(hs) = 0 THEN <<>>
        ELSE <<hs[CHOOSE k \in 1..Len(hs) :
                    \A j \in 1..Len(hs) : hs[k].routeIndex <= hs[j].routeIndex]>>

\* processRequest: the candidates for responseHandler (the first one is taken)
responseHandlers(found) ==
    LET IsHandler(route) == ~route.isMiddleware
    IN  SelectSeq(found, IsHandler)

\* processRequest: the comparator given to sort
Compare(a, b) ==
    IF rev = "A" THEN b.routeIndex - a.routeIndex ELSE a.routeIndex - b.routeIndex

\* Array.prototype.sort (stable) with Compare
RECURSIVE InsertSorted(_, _)
InsertSorted(x, sorted) ==
    IF Len(sorted) = 0 THEN <<x>>
    ELSE IF Compare(Head(sorted), x) <= 0
         THEN <<Head(sorted)>> \o InsertSorted(x, Tail(sorted))
         ELSE <<x>> \o sorted

RECURSIVE Sort(_)
Sort(list) ==
    IF Len(list) = 0 THEN <<>>
    ELSE InsertSorted(Last(list), Sort(SubSeq(list, 1, Len(list) - 1)))

orderedMiddlewareList(found) == Sort(foundMiddlewares(found))

\* Router.mainRouter: null after construction and assigned nowhere
mainRouter(r) == Null

\* (mutant) assignSelfAsMainRouter marking every router
assignSelfAsMainRouter_All(r) ==
    [ throws |-> mainRouter(r) # Null,
      isMainRouter |-> [q \in DOMAIN isMainRouter |-> TRUE] ]

\* Router.assignSelfAsMainRouter: the error thrown, or the flags afterwards
assignSelfAsMainRouter(r) ==
    [ throws |-> mainRouter(r) # Null,
      isMainRouter |-> [isMainRouter EXCEPT ![r] = TRUE] ]

\* (mutant) serveRequest never assigning the main router
NeedsAssign_Never(r) == FALSE

\* serveRequest: the condition under which it calls assignSelfAsMainRouter
\*   revision A: !this.isMainRouter
\*   revision B: !this.mainRouter && !this.isMainRouter
NeedsAssign(r) ==
    IF rev = "A" THEN ~isMainRouter[r]
    ELSE mainRouter(r) = Null /\ ~isMainRouter[r]

\* (mutant) getMainRouter accepting the router it is called on when it is main
RECURSIVE getMainRouter_SelfFirst(_)
getMainRouter_SelfFirst(r) ==
    IF isMainRouter[r] THEN [ok |-> TRUE, router |-> r]
    ELSE IF parentRouter[r] # {}
    THEN getMainRouter_SelfFirst(CHOOSE p \in parentRouter[r] : TRUE)
    ELSE [ok |-> FALSE, router |-> r]

\* Router.getMainRouter: the router found, or the error thrown
RECURSIVE getMainRouter(_)
getMainRouter(r) ==
    IF parentRouter[r] # {}
    THEN getMainRouter(CHOOSE p \in parentRouter[r] : TRUE)
    ELSE IF isMainRouter[r] THEN [ok |-> TRUE, router |-> r]
         ELSE [ok |-> FALSE, router |-> r]

\* RouterResponse.build: revision B first asks the matched route's router for the
\* main router, which can throw
BuildThrows(req) ==
    rev = "B" /\ ~getMainRouter(req.matchedRoute.router).ok

\* (mutant) finishResponse building the artifact from a fresh response state
finishResponse_Fresh(r, req, res) ==
    IF ~getMainRouter(r).ok \/ BuildThrows(req)
    THEN Rejected("not main router")
    ELSE Resolved(NewResponse)

\* RouterResponse.build: the response field of the object it returns. Revision B
\* asks the main router of the matched route's router for a customResponseBuilder.
Build(req, res) ==
    IF rev = "B" /\ customResponseBuilder[getMainRouter(req.matchedRoute.router).router]
    THEN BuilderValue(res)
    ELSE FinalResponse(res)

\* Router.finishResponse, called on router r: the settlement of the request
finishResponse(r, req, res) ==
    IF ~getMainRouter(r).ok \/ BuildThrows(req)
    THEN Rejected("not main router")
    ELSE [ Resolved(res) EXCEPT
             !.response = IF customResponseBuilder[getMainRouter(r).router]
                          THEN BuilderValue(res)
                          ELSE Build(req, res) ]

\* finishResponse: the calls of customResponseBuilder it makes (one in revision B's
\* build, one of its own), none when getMainRouter throws
FinishBuilderCalls(r, req) ==
    IF ~getMainRouter(r).ok \/ BuildThrows(req) THEN 0
    ELSE (IF rev = "B" /\ customResponseBuilder[getMainRouter(req.matchedRoute.router).router]
          THEN 1 ELSE 0)
         + (IF customResponseBuilder[getMainRouter(r).router] THEN 1 ELSE 0)

\* finishResponse: what its response.build() call returned
FinishBuilt(r, req, res) ==
    IF ~getMainRouter(r).ok \/ BuildThrows(req) THEN <<>> ELSE <<Build(req, res)>>

\* Function.length of a handler: the context parameters (request, response and,
\* in revision A, additionalData), plus one for a declared continuation callback
HandlerLength(h) ==
    (IF rev = "A" THEN 3 ELSE 2) + (IF h.form = "explicit" THEN 1 ELSE 0)

\* executeMiddleware: hasNextCallback
hasNextCallback(h) == HandlerLength(h) = (IF rev = "A" THEN 4 ELSE 3)

\* executeMiddleware: the value the continuation callback resolves the promise
\* with; arg is "none" (no argument), "true" or "false".
\*   revision A: (abort?) => resolve(!abort)
\*   revision B: (proceed = true) => resolve(proceed)
ResolveValue(arg) ==
    IF rev = "A" THEN arg # "true" ELSE arg # "false"

\* What a middleware does when it is called: an effect on the response, then the
\* continuation callback with arg, or a throw.
MwBehaviours ==
    { [effect |-> "none",  arg |-> "none",  throws |-> FALSE],
      [effect |-> "deny",  arg |-> "true",  throws |-> FALSE],
      [effect |-> "deny",  arg |-> "false", throws |-> FALSE],
      [effect |-> "local", arg |-> "none",  throws |-> FALSE],
      [effect |-> "none",  arg |-> "none",  throws |-> TRUE] }

\* What a response handler does when it is called
HandlerBehaviours == {"text", "throw"}

\* "deny": res.statusCode(401).json({success: false, ...})
\* "local": res.locals[<handler>] = true, a TypeError when locals is undefined
\* "task": res.addTasks(promise)
ApplyEffect(res, effect, id) ==
    IF effect = "deny" THEN Json(SetStatusCode(res, 401), "denied")
    ELSE IF effect = "task" THEN AddTasks(res, <<Task(id, 0)>>)
    ELSE IF effect = "local" /\ res.hasLocals THEN [res EXCEPT !.locals = @ \cup {id}]
    ELSE res

EffectThrows(res, effect) == effect = "local" /\ ~res.hasLocals

\* One call of a handler, as the log invoked keeps it: the route called, its
\* position in the chain (0 for the response handler), the locals it was given,
\* what it did, the argument of its continuation callback once delivered, and
\* the arguments of the calls of that callback made after the first
Call(route, role, pos, res, effect, threw) ==
    [ id |-> route.handler.id, routeIndex |-> route.routeIndex, role |-> role,
      pos |-> pos, locals |-> res.locals, effect |-> effect, threw |-> threw,
      arg |-> Null, later |-> <<>> ]

\* (mutant) processRequest leaving the request as it was constructed
setMatched_Nothing(req, responseHandler) == req

\* processRequest: routerRequest.setMatchedParams(responseHandler.match);
\* routerRequest.setMatchedRoute(responseHandler.route)
setMatched(req, responseHandler) ==
    [req EXCEPT !.matchedParams = MatchParams(responseHandler.fixedPath, req.path),
                !.hasMatchedRoute = TRUE,
                !.matchedRoute = responseHandler]

\* serveRequest up to the first await of processRequest
ServeRequest(r, method, url) ==
    LET req == NewRequest(method, url)
        found == findMatchingRoutes(r, req)
        handlers == responseHandlers(found)
    IN  /\ pc \in {"idle", "settled", "hung"}
        /\ serving' = r
        /\ isMainRouter' = IF NeedsAssign(r) /\ ~assignSelfAsMainRouter(r).throws
                           THEN assignSelfAsMainRouter(r).isMainRouter
                           ELSE isMainRouter
        /\ invoked' = <<>>
        /\ handlerOps' = 0
        /\ builderCalls' = 0
        /\ built' = <<>>
        /\ pendingArg' = Null
        /\ allMiddlewaresSuccessful' = TRUE
        /\ IF NeedsAssign(r) /\ assignSelfAsMainRouter(r).throws
           THEN /\ request' = NoRequest
                /\ response' = NoResponse
                /\ chain' = <<>>
                /\ idx' = 0
                /\ result' = Rejected("already a main router")
                /\ pc' = "settled"
           ELSE IF Len(handlers) = 0
           THEN /\ request' = req
                /\ response' = NewResponse
                /\ chain' = <<>>
                /\ idx' = 0
                /\ result' = Rejected("no response handler")
                /\ pc' = "settled"
           ELSE /\ request' = setMatched(req, handlers[1])
                /\ response' = [NewResponse EXCEPT !.hasMatchedRoute = TRUE,
                                                   !.matchedRoute = handlers[1]]
                /\ chain' = orderedMiddlewareList(found)
                /\ idx' = 1
                /\ result' = Pending
                /\ pc' = "loop"
        /\ UNCHANGED <<configVars, suspended, treeVars>>

\* (mutant) the loop calling the next middleware without awaiting executeMiddleware
InvokeMiddleware_NoWait(b) ==
    /\ pc \in {"loop", "awaitNext"}
    /\ LET i == IF pc = "awaitNext" THEN idx + 1 ELSE idx
       IN  /\ i <= Len(chain)
           /\ hasNextCallback(chain[i].handler)
           /\ invoked' = Append(invoked, Call(chain[i], "middleware", i, response,
                                              b.effect, FALSE))
           /\ response' = ApplyEffect(response, b.effect, chain[i].handler.id)
           /\ idx' = i
    /\ pc' = "awaitNext"
    /\ pendingArg' = b.arg
    /\ UNCHANGED <<configVars, suspended, buildVars, treeVars, isMainRouter, handlerOps,
                   serving, request, chain, allMiddlewaresSuccessful, result>>

\* executeMiddleware, hasNextCallback: the middleware is called
InvokeMiddleware(b) ==
    /\ pc = "loop" /\ idx <= Len(chain)
    /\ hasNextCallback(chain[idx].handler)
    /\ LET threw == b.throws \/ EffectThrows(response, b.effect)
       IN  /\ invoked' = Append(invoked, Call(chain[idx], "middleware", idx, response,
                                              b.effect, threw))
           /\ IF threw
              THEN pc' = "hung" /\ pendingArg' = Null
              ELSE pc' = "awaitNext" /\ pendingArg' = b.arg
    /\ response' = ApplyEffect(response, b.effect, chain[idx].handler.id)
    /\ UNCHANGED <<configVars, suspended, buildVars, treeVars, isMainRouter, handlerOps, serving, request, chain, idx,
                   allMiddlewaresSuccessful, result>>

\* executeMiddleware, no next callback: await (async () => handler(...)); resolve(true).
\* The awaited value is the arrow function itself, which is never called.
AutoContinue ==
    /\ pc = "loop" /\ idx <= Len(chain)
    /\ ~hasNextCallback(chain[idx].handler)
    /\ idx' = idx + 1
    /\ UNCHANGED <<configVars, suspended, buildVars, treeVars, isMainRouter, handlerOps, pc, serving, request, response, chain,
                   allMiddlewaresSuccessful, pendingArg, invoked, result>>

\* (mutant) NextCallback without the break: after an abort the loop goes on
NextCallback_NoBreak ==
    /\ pc = "awaitNext"
    /\ pendingArg' = Null
    /\ invoked' = [invoked EXCEPT ![Len(invoked)].arg = pendingArg]
    /\ allMiddlewaresSuccessful' = (allMiddlewaresSuccessful /\ ResolveValue(pendingArg))
    /\ idx' = idx + 1
    /\ pc' = "loop"
    /\ UNCHANGED <<configVars, suspended, buildVars, treeVars, isMainRouter, handlerOps, serving, request, response, chain, result>>

\* The middleware calls the continuation callback; processRequest goes on
NextCallback ==
    /\ pc = "awaitNext"
    /\ pendingArg' = Null
    /\ invoked' = [invoked EXCEPT ![Len(invoked)].arg = pendingArg]
    /\ IF ResolveValue(pendingArg)
       THEN /\ idx' = idx + 1
            /\ pc' = "loop"
            /\ UNCHANGED <<allMiddlewaresSuccessful, buildVars, result>>
       ELSE /\ allMiddlewaresSuccessful' = FALSE
            /\ result' = finishResponse(serving, request, response)
            /\ builderCalls' = builderCalls + FinishBuilderCalls(serving, request)
            /\ built' = FinishBuilt(serving, request, response)
            /\ pc' = "settled"
            /\ UNCHANGED idx
    /\ UNCHANGED <<configVars, suspended, treeVars, isMainRouter, handlerOps, serving, request, response, chain>>

\* The arguments a continuation callback may be given
CallbackArgs == {"none", "true", "false"}

\* (mutant) a later call of a continuation callback decides the dispatch anew
RepeatCallback_Counts(k, arg) ==
    /\ pc \in {"loop", "awaitNext", "handler", "settled"}
    /\ k \in 1..Len(invoked)
    /\ invoked[k].role = "middleware" /\ invoked[k].arg # Null
    /\ Len(invoked[k].later) < MaxRepeats
    /\ invoked' = [invoked EXCEPT ![k].later = Append(@, arg)]
    /\ allMiddlewaresSuccessful' = ResolveValue(arg)
    /\ UNCHANGED <<configVars, suspended, buildVars, treeVars, isMainRouter, handlerOps,
                   pc, serving, request, response, chain, idx, pendingArg, result>>

\* The middleware of call k calls its continuation callback again, at once or
\* after the chain has moved on: resolve on the promise of its executeMiddleware,
\* which the first call settled, so the call has no effect
RepeatCallback(k, arg) ==
    /\ pc \in {"loop", "awaitNext", "handler", "settled"}
    /\ k \in 1..Len(invoked)
    /\ invoked[k].role = "middleware" /\ invoked[k].arg # Null
    /\ Len(invoked[k].later) < MaxRepeats
    /\ invoked' = [invoked EXCEPT ![k].later = Append(@, arg)]
    /\ UNCHANGED <<configVars, suspended, buildVars, treeVars, isMainRouter, handlerOps,
                   pc, serving, request, response, chain, idx,
                   allMiddlewaresSuccessful, pendingArg, result>>

\* (mutant) the response handler called without waiting for the loop to end
CallResponseHandler_Early(b) ==
    /\ pc = "loop"
    /\ invoked' = Append(invoked, Call(request.matchedRoute, "handler", 0, response,
                                       b, b = "throw"))
    /\ IF b = "throw"
       THEN /\ result' = Rejected("handler error")
            /\ UNCHANGED <<response, buildVars>>
       ELSE /\ response' = Text(response, "ok")
            /\ result' = finishResponse(serving, request, response')
            /\ builderCalls' = builderCalls + FinishBuilderCalls(serving, request)
            /\ built' = FinishBuilt(serving, request, response')
    /\ pc' = "settled"
    /\ UNCHANGED <<configVars, suspended, treeVars, isMainRouter, handlerOps, serving, request, chain, idx,
                   allMiddlewaresSuccessful, pendingArg>>

\* processRequest after the loop: the response handler is called and awaited
CallResponseHandler(b) ==
    /\ pc = "loop" /\ idx > Len(chain)
    /\ invoked' = Append(invoked, Call(request.matchedRoute, "handler", 0, response,
                                       b, b = "throw"))
    /\ IF b = "throw"
       THEN /\ result' = Rejected("handler error")
            /\ UNCHANGED <<response, buildVars>>
       ELSE /\ response' = Text(response, "ok")
            /\ result' = finishResponse(serving, request, response')
            /\ builderCalls' = builderCalls + FinishBuilderCalls(serving, request)
            /\ built' = FinishBuilt(serving, request, response')
    /\ pc' = "settled"
    /\ UNCHANGED <<configVars, suspended, treeVars, isMainRouter, handlerOps, serving, request, chain, idx,
                   allMiddlewaresSuccessful, pendingArg>>

\* The response handler, step by step: it is called, ...
EnterResponseHandler ==
    /\ pc = "loop" /\ idx > Len(chain)
    /\ invoked' = Append(invoked, Call(request.matchedRoute, "handler", 0, response,
                                       "ops", FALSE))
    /\ pc' = "handler"
    /\ UNCHANGED <<configVars, suspended, buildVars, treeVars, isMainRouter, handlerOps, serving, request,
                   response, chain, idx, allMiddlewaresSuccessful, pendingArg, result>>

\* ... calls methods of the RouterResponse it was given, ...
ApplyOp(res, op) ==
    IF op.method = "text" THEN Text(res, "ok")
    ELSE IF op.method = "statusCode" THEN SetStatusCode(res, 201)
    ELSE IF op.method = "setContentType" THEN SetContentType(res, "text/html")
    ELSE IF op.method = "redirectTo" THEN RedirectTo(res, "/to", op.code)
    ELSE IF op.method = "addTasks"
    THEN AddTasks(res, <<Task(request.matchedRoute.handler.id, handlerOps + 1)>>)
    ELSE SetCustomResponse(res, "customResponse")

ResponseOp(op) ==
    /\ pc = "handler" /\ handlerOps < MaxHandlerOps
    /\ response' = ApplyOp(response, op)
    /\ handlerOps' = handlerOps + 1
    /\ UNCHANGED <<configVars, suspended, buildVars, treeVars, isMainRouter, pc, serving, request, chain, idx,
                   allMiddlewaresSuccessful, pendingArg, invoked, result>>

\* ... and returns: processRequest returns this.finishResponse(...)
ReturnFromHandler ==
    /\ pc = "handler"
    /\ result' = finishResponse(serving, request, response)
    /\ builderCalls' = builderCalls + FinishBuilderCalls(serving, request)
    /\ built' = FinishBuilt(serving, request, response)
    /\ pc' = "settled"
    /\ UNCHANGED <<configVars, suspended, treeVars, isMainRouter, handlerOps, serving, request,
                   response, chain, idx, allMiddlewaresSuccessful, pendingArg, invoked>>

\* The dispatch the variables hold now
CurrentContext ==
    [ pc |-> pc, serving |-> serving, request |-> request, response |-> response,
      chain |-> chain, idx |-> idx, allMiddlewaresSuccessful |-> allMiddlewaresSuccessful,
      pendingArg |-> pendingArg, invoked |-> invoked, handlerOps |-> handlerOps,
      builderCalls |-> builderCalls, built |-> built, result |-> result ]

\* Two requests in flight: the event loop leaves the dispatch of one request at an
\* await (every action above ends at one) and goes on with the other's
Switch ==
    /\ pc # "idle" \/ suspended.pc # "idle"
    /\ suspended' = CurrentContext
    /\ pc' = suspended.pc
    /\ serving' = suspended.serving
    /\ request' = suspended.request
    /\ response' = suspended.response
    /\ chain' = suspended.chain
    /\ idx' = suspended.idx
    /\ allMiddlewaresSuccessful' = suspended.allMiddlewaresSuccessful
    /\ pendingArg' = suspended.pendingArg
    /\ invoked' = suspended.invoked
    /\ handlerOps' = suspended.handlerOps
    /\ builderCalls' = suspended.builderCalls
    /\ built' = suspended.built
    /\ result' = suspended.result
    /\ UNCHANGED <<configVars, treeVars, isMainRouter>>

\* artifact.routerResponse.build() called again on the response of a served request
BuildAgain ==
    /\ pc = "settled" /\ result.state = "resolved"
    /\ Len(built) < MaxBuilds
    /\ built' = Append(built, Build(request, response))
    /\ builderCalls' = builderCalls
           + (IF rev = "B" /\ customResponseBuilder[getMainRouter(request.matchedRoute.router).router]
              THEN 1 ELSE 0)
    /\ UNCHANGED <<configVars, suspended, treeVars, isMainRouter, pc, serving, request, response, chain,
                   idx, allMiddlewaresSuccessful, pendingArg, invoked, handlerOps, result>>

Next ==
    \/ \E r \in Routers, path \in UsePaths, form \in Forms : UseFn(r, path, form)
    \/ \E c \in Routers \ {0}, path \in MountPaths : UseRouter(c, path)
    \/ \E r \in Routers, method \in RouteMethods, path \in HandlerPaths : Register(r, method, path)
    \/ \E method \in RequestMethods, url \in RequestUrls : ServeRequest(0, method, url)
    \/ \E b \in MwBehaviours : InvokeMiddleware(b)
    \/ AutoContinue
    \/ NextCallback
    \/ \E b \in HandlerBehaviours : CallResponseHandler(b)

Spec == Init /\ [][Next]_vars

-----------------------------------------------------------------------------
(* Matching: a root with middleware and response handlers of several paths and
   methods, a mounted router with middleware, requests of several urls; every
   middleware takes the continuation callback and calls it without an argument,
   every response handler answers with a text *)

\* At most MaxMatchRoutes registration calls are made.
MaxMatchRoutes == 3

\* use(handler) without a path is use("/", handler)
MatchUsePaths == { <<"/">>, <<"/", "*">> }
MatchHandlerPaths == { <<"/", "a">>, <<"/", "a", "/">>, <<"/", ":", "p", "/", ":", "q">>,
                       <<"/", "*">> }
MatchRouteMethods == {"GET", "ANY"}
MatchUrls == { <<"/">>, <<"/", "a">>, <<"/", "a", "/">>, <<"/", "a", "?", "q">>,
               <<"/", "a", "/", "b">>, <<"/", "a", "/", "1", ".", "2">>,
               <<"/", "s">>, <<"/", "s", "/", "s">> }
MatchBehaviours == { [effect |-> "none", arg |-> "none", throws |-> FALSE] }

MatchCanRegister == regCount < MaxMatchRoutes

\* One request is served per behaviour: serveRequest resets every variable of the
\* dispatch and leaves the tree alone, so a later request of the same tree passes
\* through the states of a first one.

MatchNext ==
    \/ \E r \in Routers, path \in MatchUsePaths :
          MatchCanRegister /\ UseFn(r, path, "explicit")
    \/ \E path \in MountPaths : MatchCanRegister /\ UseRouter(1, path)
    \/ \E method \in MatchRouteMethods, path \in MatchHandlerPaths :
          MatchCanRegister /\ Register(0, method, path)
    \/ \E method \in RequestMethods, url \in MatchUrls :
          pc = "idle" /\ ServeRequest(0, method, url)
    \/ \E b \in MatchBehaviours : InvokeMiddleware(b)
    \/ NextCallback
    \/ CallResponseHandler("text")

MatchSpec == Init /\ [][MatchNext]_vars

-----------------------------------------------------------------------------
(* The response: a root constructed with or without a customResponseBuilder, a
   middleware that may change the response and abort, a response handler that
   calls methods of the RouterResponse in any order *)

ResponseOps ==
    { [method |-> "text", code |-> NoCode],
      [method |-> "statusCode", code |-> NoCode],
      [method |-> "setContentType", code |-> NoCode],
      [method |-> "redirectTo", code |-> NoCode],
      [method |-> "redirectTo", code |-> GivenCode(301)],
      [method |-> "setCustomResponse", code |-> NoCode],
      [method |-> "addTasks", code |-> NoCode] }

ResponseMwBehaviours ==
    { [effect |-> "none", arg |-> "none",  throws |-> FALSE],
      [effect |-> "deny", arg |-> "true",  throws |-> FALSE],
      [effect |-> "deny", arg |-> "false", throws |-> FALSE],
      [effect |-> "task", arg |-> "none",  throws |-> FALSE],
      [effect |-> "task", arg |-> "true",  throws |-> FALSE],
      [effect |-> "task", arg |-> "false", throws |-> FALSE] }

ResponseInit ==
    \E opts \in [Routers -> {NoOptions, BuilderOptions}] : Construct(Routers, opts)

ResponseCanRegister == regCount < MaxResponseRoutes

\* router.customResponseBuilder = builder: the public field is assigned by the
\* caller before the first request is served
AssignCustomResponseBuilder(r) ==
    /\ pc = "idle"
    /\ ~customResponseBuilder[r]
    /\ customResponseBuilder' = [customResponseBuilder EXCEPT ![r] = TRUE]
    /\ UNCHANGED <<rev, options, treeVars, isMainRouter, dispatchVars, suspended>>

ResponseNext ==
    \/ ResponseCanRegister /\ UseFn(0, <<"/", "*">>, "explicit")
    \/ ResponseCanRegister /\ Register(0, "GET", <<"/", "a">>)
    \/ AssignCustomResponseBuilder(0)
    \/ ServeRequest(0, "GET", <<"/", "a">>)
    \/ \E b \in ResponseMwBehaviours : InvokeMiddleware(b)
    \/ NextCallback
    \/ EnterResponseHandler
    \/ \E op \in ResponseOps : ResponseOp(op)
    \/ ReturnFromHandler
    \/ BuildAgain

ResponseSpec == ResponseInit /\ [][ResponseNext]_vars

-----------------------------------------------------------------------------
(* The main router: two routers, one mounted under the other or not, each with
   response handlers; assignSelfAsMainRouter and serveRequest are called on either,
   and a second request is served while the first is settled or in flight *)

MainHandlerPaths == { <<"/", "a">> }
MainUrls == { <<"/", "a">>, <<"/", "s", "/", "a">> }
MainCanRegister == regCount < MaxMainRoutes

\* router.assignSelfAsMainRouter(), called by the user before any request is served
AssignSelfAsMainRouter(r) ==
    /\ pc = "idle" /\ suspended.pc = "idle"
    /\ ~assignSelfAsMainRouter(r).throws
    /\ isMainRouter' = assignSelfAsMainRouter(r).isMainRouter
    /\ UNCHANGED <<configVars, suspended, treeVars, dispatchVars>>

MainNext ==
    \/ \E path \in MountPaths : MainCanRegister /\ UseRouter(1, path)
    \/ \E r \in Routers, path \in MainHandlerPaths :
          MainCanRegister /\ Register(r, "GET", path)
    \/ \E r \in Routers : AssignSelfAsMainRouter(r)
    \/ \E r \in Routers, url \in MainUrls : ServeRequest(r, "GET", url)
    \/ CallResponseHandler("text")
    \/ Switch

MainSpec == Init /\ [][MainNext]_vars

-----------------------------------------------------------------------------
(* Two requests in flight: a root with a middleware and a response handler of a
   named segment; two requests of different urls are served, the steps of their
   dispatches interleaved *)

ConcurrentUrls == { <<"/", "a">>, <<"/", "b">> }

ConcurrentMwBehaviours ==
    { [effect |-> "none",  arg |-> "none",  throws |-> FALSE],
      [effect |-> "deny",  arg |-> "true",  throws |-> FALSE],
      [effect |-> "deny",  arg |-> "false", throws |-> FALSE],
      [effect |-> "local", arg |-> "none",  throws |-> FALSE] }

ConcurrentCanRegister == regCount < MaxConcurrentRoutes

ConcurrentNext ==
    \/ ConcurrentCanRegister /\ UseFn(0, <<"/", "*">>, "explicit")
    \/ ConcurrentCanRegister /\ Register(0, "GET", <<"/", ":", "p">>)
    \/ \E url \in ConcurrentUrls : ServeRequest(0, "GET", url)
    \/ \E b \in ConcurrentMwBehaviours : InvokeMiddleware(b)
    \/ NextCallback
    \/ CallResponseHandler("text")
    \/ Switch

ConcurrentSpec == Init /\ [][ConcurrentNext]_vars

-----------------------------------------------------------------------------
(* Continuation callbacks called more than once: a root with explicit-control
   middleware and a response handler; a middleware that was called and has
   called its callback calls it again, with any argument, while the dispatch
   goes on or after it has ended *)

RepeatMwBehaviours ==
    { [effect |-> "none", arg |-> a, throws |-> FALSE] : a \in CallbackArgs }

RepeatCanRegister == regCount < MaxRepeatRoutes

RepeatNext ==
    \/ RepeatCanRegister /\ UseFn(0, <<"/", "*">>, "explicit")
    \/ RepeatCanRegister /\ Register(0, "GET", <<"/", "a">>)
    \/ pc = "idle" /\ ServeRequest(0, "GET", <<"/", "a">>)
    \/ \E b \in RepeatMwBehaviours : InvokeMiddleware(b)
    \/ NextCallback
    \/ \E k \in 1..MaxRepeatRoutes, arg \in CallbackArgs : RepeatCallback(k, arg)
    \/ CallResponseHandler("text")

RepeatSpec == Init /\ [][RepeatNext]_vars

-----------------------------------------------------------------------------
(* Routes that lead into a router: a router given to use and to a per-method
   call, middleware and response handlers on both routers, requests of the mount
   path and of the handlers' paths *)

RouterRouteUrls == { <<"/", "s">>, <<"/", "a">>, <<"/", "s", "/", "a">> }
RouterRouteCanRegister == regCount < MaxRouterRoutes

RouterRouteNext ==
    \/ \E r \in Routers : RouterRouteCanRegister /\ UseFn(r, <<"/", "*">>, "explicit")
    \/ RouterRouteCanRegister /\ UseRouter(1, <<"/", "s">>)
    \/ RouterRouteCanRegister /\ RegisterRouter(1, "GET", <<"/", "s">>)
    \/ \E r \in Routers : RouterRouteCanRegister /\ Register(r, "GET", <<"/", "a">>)
    \/ \E url \in RouterRouteUrls : pc = "idle" /\ ServeRequest(0, "GET", url)
    \/ \E b \in MatchBehaviours : InvokeMiddleware(b)
    \/ NextCallback
    \/ CallResponseHandler("text")

RouterRouteSpec == Init /\ [][RouterRouteNext]_vars

-----------------------------------------------------------------------------
(* The route tree alone: registration and mounts over a chain of three routers *)

TreeRouters == 0..MaxTreeRouter
TreeMountPaths == { <<"/", "s">>, <<"/", "p">> }

TreeInit == InitWith(TreeRouters)

TreeNext ==
    \/ \E r \in TreeRouters, path \in UsePaths, form \in Forms : UseFn(r, path, form)
    \/ \E c \in TreeRouters \ {0}, path \in TreeMountPaths : UseRouter(c, path)
    \/ \E r \in TreeRouters, method \in RouteMethods, path \in HandlerPaths :
          Register(r, method, path)

TreeSpec == TreeInit /\ [][TreeNext]_vars

-----------------------------------------------------------------------------
(* Mount order: two chains of three routers, root 0 with child 1 and grandchild
   2, root 3 with child 4 and grandchild 5. Each child is mounted on its root and
   each grandchild on its child at "/p", once, in either order *)

OrderRouters == 0..MaxOrderRouter
OrderChildren == {1, 4}
OrderGrandchildren == {2, 5}

OrderInit == InitWith(OrderRouters)

OrderNext ==
    \/ \E c \in OrderChildren, path \in TreeMountPaths :
          parentRouter[c] = {} /\ UseRouter(c, path)
    \/ \E g \in OrderGrandchildren : parentRouter[g] = {} /\ UseRouter(g, <<"/", "p">>)

OrderSpec == OrderInit /\ [][OrderNext]_vars

-----------------------------------------------------------------------------
(* Properties of the dispatch *)

MiddlewareCalls == { k \in 1..Len(invoked) : invoked[k].role = "middleware" }
HandlerCalls == { k \in 1..Len(invoked) : invoked[k].role = "handler" }

\* C1: the function middleware called for a request are called in strictly
\* ascending routeIndex order, whichever router registered them and in whatever
\* order findMatchingRoutes found them.
C1_AscendingOrder ==
    \A i, j \in MiddlewareCalls :
        i < j => invoked[i].routeIndex < invoked[j].routeIndex

\* C2: once the middleware at position i of the ordered chain has aborted (the
\* promise of executeMiddleware resolved false), no middleware at a position
\* greater than i has been called, the response handler has not been called, and
\* the request is settled by finishResponse from the response as it stands.
C2_AbortStopsChain ==
    ~allMiddlewaresSuccessful =>
        /\ pc = "settled"
        /\ HandlerCalls = {}
        /\ \A k \in MiddlewareCalls : invoked[k].pos <= idx
        /\ invoked[Len(invoked)].pos = idx
        /\ result = finishResponse(serving, request, response)

\* C2 witness: a chain of at least two called-for middleware aborted at a
\* position that is not the last one
C2_Witness ==
    /\ ~allMiddlewaresSuccessful
    /\ pc = "settled"
    /\ idx < Len(chain)
    /\ \E p \in (idx + 1)..Len(chain) : hasNextCallback(chain[p].handler)

\* C3: for a middleware that declares the continuation callback, the callback
\* called with false aborts the chain (that call is the last call of the request
\* and the request is settled), and the callback called with no argument or with
\* true lets the chain go on to its next step.
C3_CallbackContract ==
    \A k \in MiddlewareCalls :
        /\ invoked[k].arg = "false" =>
              /\ k = Len(invoked)
              /\ ~allMiddlewaresSuccessful
              /\ pc = "settled"
        /\ (invoked[k].arg \in {"none", "true"} /\ k = Len(invoked)) =>
              /\ allMiddlewaresSuccessful
              /\ pc = "loop"
              /\ idx > invoked[k].pos

\* C4: when a middleware has changed the response state (status code 401 and a
\* JSON body) and then aborted, serveRequest resolves to an artifact, and the
\* artifact's response is the one built from the response state as that
\* middleware left it.
C4_AbortKeepsResponse ==
    (~allMiddlewaresSuccessful /\ invoked[Len(invoked)].effect = "deny") =>
        /\ result.state = "resolved"
        /\ result.response = FinalResponse(response)
        /\ result.response.kind = "response"
        /\ result.response.status = 401
        /\ result.response.body = "denied"
        /\ result.response.contentType = "application/json"

C4_Witness ==
    /\ ~allMiddlewaresSuccessful
    /\ invoked[Len(invoked)].effect = "deny"
    /\ result.state = "resolved"
    /\ result.response.status = 401

RECURSIVE DiscoveryOrder(_)
DiscoveryOrder(rts) ==
    IF Len(rts) = 0 THEN <<>>
    ELSE (IF Head(rts).handler.kind = "router"
          THEN DiscoveryOrder(routes[Head(rts).handler.id])
          ELSE <<Head(rts)>>)
         \o DiscoveryOrder(Tail(rts))

\* The places in the discovery order of the non-middleware routes matching req
TerminalCandidates(r, req) ==
    LET d == DiscoveryOrder(routes[r])
    IN  { k \in 1..Len(d) : ~d[k].isMiddleware /\ matchesRequest(d[k], req) }

Min(S) == CHOOSE x \in S : \A y \in S : x <= y

\* C6: a dispatch calls at most one response handler; a dispatch that ran to its
\* end without an abort called exactly one, and it is the first non-middleware
\* matching route in depth-first discovery order, whatever the sequence numbers
\* of the other matching non-middleware routes.
C6_FirstTerminalOnly ==
    LET d == DiscoveryOrder(routes[serving])
        cands == TerminalCandidates(serving, request)
    IN  /\ Cardinality(HandlerCalls) <= 1
        /\ (pc = "settled" /\ allMiddlewaresSuccessful /\ cands # {}) => HandlerCalls # {}
        /\ \A h \in HandlerCalls :
              /\ cands # {}
              /\ invoked[h].id = d[Min(cands)].handler.id
              /\ invoked[h].routeIndex = d[Min(cands)].routeIndex

\* C6 witness: the handler called is not the matching non-middleware route of
\* lowest sequence number
C6_Witness ==
    LET d == DiscoveryOrder(routes[serving])
    IN  \E h \in HandlerCalls : \E k \in TerminalCandidates(serving, request) :
            d[k].routeIndex < invoked[h].routeIndex

\* C7: when no non-middleware route of the tree matches the request,
\* serveRequest resolves to an artifact whose response has status 404 and a
\* plain-text body.
C7_NotFoundIs404 ==
    (pc = "settled" /\ TerminalCandidates(serving, request) = {}) =>
        /\ result.state = "resolved"
        /\ result.response.status = 404
        /\ result.response.contentType = "text/plain"

\* C8: the promise serveRequest returns is never rejected and is never left
\* pending with nothing that will settle it, whether no route matches or a
\* middleware or the response handler throws.
C8_AlwaysResolves ==
    /\ result.state # "rejected"
    /\ pc # "hung"

\* C9: when a middleware or the response handler throws, the dispatcher catches
\* it, calls nothing further, and settles the request with the artifact built by
\* finishResponse.
C9_ThrowIsAbort ==
    \A k \in 1..Len(invoked) :
        invoked[k].threw =>
            /\ k = Len(invoked)
            /\ pc = "settled"
            /\ result.state = "resolved"

\* C10: a matched middleware declared without the continuation callback has been
\* called by the time the chain has moved past its position.
C10_AutoContinueIsCalled ==
    \A p \in 1..Len(chain) :
        (p < idx /\ chain[p].handler.form = "auto") =>
            \E k \in MiddlewareCalls : invoked[k].pos = p

-----------------------------------------------------------------------------
(* Properties of the route tree *)

\* Requests the matching of a tree is compared on
TestMethods == {"GET", "POST"}
TestUrls == { <<"/">>, <<"/", "a">>, <<"/", "s">>, <<"/", "s", "/", "a">>,
              <<"/", "s", "/", "a", "/">>, <<"/", "s", "/", "b">>, <<"/", "a", "/", "s">>,
              <<"/", "s", "/", "s", "/", "a">> }
TestRequests == { NewRequest(m, u) : m \in TestMethods, u \in TestUrls }

\* The places in routes[r] of the mount routes of router c
MountsOf(r, c) == { k \in 1..Len(routes[r]) : routes[r][k].handler = RouterHandler(c) }

\* route was registered after every mount of router c on router r
RegisteredAfterMount(route, r, c) ==
    /\ MountsOf(r, c) # {}
    /\ \A k \in MountsOf(r, c) : routes[r][k].routeIndex < route.routeIndex

InList(x, list) == \E i \in 1..Len(list) : list[i] = x

\* The route root.get(p + q, h) would create for the route root.use(p, sub);
\* sub.get(q, h) created
DirectRoute(route, p) ==
    NewRoute(0, basePath[0], p \o route.inputPath, route.method, route.handler,
             FALSE, NoIndex, 0)

\* C11: for a response handler registered on a router after that router was
\* mounted on the root with use(p, sub), the requests (method, path) for which
\* its route is found, and for which it is the route a dispatch selected, are
\* exactly the requests the route of root.get(p + q, h) matches.
C11_MountEquivalence ==
    \A c \in Routers \ {0} : \A k \in 1..Len(routes[c]) : \A p \in MountPaths :
        LET route == routes[c][k]
        IN  ( /\ parentRouter[c] = {0}
              /\ ~route.isMiddleware
              /\ RegisteredAfterMount(route, 0, c)
              /\ \A m \in MountsOf(0, c) : routes[0][m].inputPath = UsePath(0, p) )
            => /\ \A req \in TestRequests :
                     InList(route, findMatchingRoutes(0, req))
                         <=> matchesRequest(DirectRoute(route, p), req)
               /\ (request.hasMatchedRoute /\ request.matchedRoute = route)
                     => matchesRequest(DirectRoute(route, p), request)

\* C11 witness: a dispatch from the root called the handler of a route registered
\* on a mounted router after the mount
C11_Witness ==
    /\ pc = "settled" /\ result.state = "resolved"
    /\ request.hasMatchedRoute
    /\ request.matchedRoute.router # 0
    /\ RegisteredAfterMount(request.matchedRoute, 0, request.matchedRoute.router)
    /\ \E h \in HandlerCalls : invoked[h].id = request.matchedRoute.handler.id

\* C12: every route of every router has the fixed path its router's fixPath
\* computes, with the router's current base path, from the route's input path:
\* a mount recompiles the routes registered on the mounted router before it.
C12_RoutesFollowBasePath ==
    \A r \in DOMAIN routes : \A k \in 1..Len(routes[r]) :
        routes[r][k].fixedPath = fixPath(basePath[r], routes[r][k].inputPath)

\* C13: a mount use(p, child) on a router P, the root or a mounted router, leaves
\* the child with the base path fixPath computes from P's base path and p, and
\* with P as its parent router.
C13_MountSetsBasePath ==
    [][ \A c \in TreeRouters \ {0}, p \in TreeMountPaths :
            UseRouter(c, p) =>
                /\ basePath'[c] = fixPath(basePath[c - 1], p)
                /\ parentRouter'[c] = {c - 1} ]_vars

-----------------------------------------------------------------------------
(* Properties of the matching *)

\* The url (or path) with the trailing slash of its path part removed when it has
\* one and added when it has none; a query string stays where it is
ToggleSlash(url) ==
    LET endIndex == IndexOfQ(url)
        before == SubSeq(url, 1, endIndex - 1)
        after == SubSeq(url, endIndex, Len(url))
    IN  IF EndsWith(before, "/")
        THEN SubSeq(before, 1, Len(before) - 1) \o after
        ELSE before \o <<"/">> \o after

\* The path ends, before its trailing slash if it has one, in a character of a
\* literal or named segment (not in "*", ")" or "?", after which fixPath appends
\* no slash and a slash written by the caller is a part of the pattern)
EndsInSegment(path) ==
    LET bare == IF EndsWith(path, "/") THEN SubSeq(path, 1, Len(path) - 1) ELSE path
    IN  ~(\E char \in NO_APPEND_SLASH_IF_CHARACTERS : EndsWith(bare, char))

\* C14: the response handler and the middleware chain a dispatch selected for a
\* url are the ones selected for the url with the trailing slash of its path
\* toggled, with or without a query string; and every route of the root whose
\* path ends in a segment matches the request as the route registered with the
\* trailing slash of its path toggled would.
C14_TrailingSlashEquivalence ==
    pc # "idle" =>
        LET other == NewRequest(request.method, ToggleSlash(request.incomingUrl))
            found == findMatchingRoutes(serving, other)
            handlers == responseHandlers(found)
        IN  /\ request.hasMatchedRoute <=> Len(handlers) > 0
            /\ request.hasMatchedRoute =>
                  /\ request.matchedRoute = handlers[1]
                  /\ chain = orderedMiddlewareList(found)
            /\ \A k \in 1..Len(routes[0]) :
                  EndsInSegment(routes[0][k].inputPath) =>
                     ( PatternMatches(routes[0][k].fixedPath, request.path)
                         <=> PatternMatches(fixPath(basePath[0],
                                                    ToggleSlash(routes[0][k].inputPath)),
                                            request.path) )

\* C14 witness: a request for "/a?q" was answered, after a middleware, by the
\* handler of a route registered as "/a/"
C14_Witness ==
    /\ pc = "settled" /\ result.state = "resolved"
    /\ request.incomingUrl = <<"/", "a", "?", "q">>
    /\ request.matchedRoute.inputPath = <<"/", "a", "/">>
    /\ MiddlewareCalls # {} /\ HandlerCalls # {}

\* The names of the named segments of a pattern, in pattern order
RECURSIVE ParamNames(_)
ParamNames(p) ==
    IF Len(p) = 0 THEN <<>>
    ELSE IF Head(p) = ":" THEN <<NameOf(Tail(p))>> \o ParamNames(SkipName(Tail(p)))
    ELSE ParamNames(Tail(p))

\* The path a pattern gives when each named segment is replaced, in order, by the
\* next of the values
RECURSIVE Substitute(_, _)
Substitute(p, values) ==
    IF Len(p) = 0 THEN <<>>
    ELSE IF Head(p) = ":" THEN Head(values) \o Substitute(SkipName(Tail(p)), Tail(values))
    ELSE <<Head(p)>> \o Substitute(Tail(p), values)

\* Segment values substituted for the parameters (none is empty or holds a "/")
TestValues == { <<"a">>, <<"b">>, <<"1", ".", "2">> }

\* C15: when the first response-handler route of the tree has named segments and
\* the method of the request, and the path of the request is its pattern with
\* segment values substituted for the parameters, the request is dispatched to
\* that route with matchedParams holding, for each parameter name of the pattern,
\* the value substituted for it.
C15_ParamsRoundTrip ==
    LET d == DiscoveryOrder(routes[serving])
        terminals == { k \in 1..Len(d) : ~d[k].isMiddleware }
    IN  (pc # "idle" /\ terminals # {}) =>
            LET route == d[Min(terminals)]
                names == ParamNames(route.fixedPath)
            IN  (names # <<>> /\ route.method \in {"ANY", request.method}) =>
                    \A values \in [1..Len(names) -> TestValues] :
                        request.path = Substitute(route.fixedPath, values) =>
                            /\ request.hasMatchedRoute
                            /\ request.matchedRoute = route
                            /\ request.matchedParams =
                                  [i \in 1..Len(names) |-> [name |-> names[i], value |-> values[i]]]

\* The places in the discovery order of the response-handler routes whose
\* pattern matches the path of req and whose method is ANY or the method of req
AllowedTerminals(r, req) ==
    LET d == DiscoveryOrder(routes[r])
    IN  { k \in 1..Len(d) : /\ ~d[k].isMiddleware
                            /\ PatternMatches(d[k].fixedPath, req.path)
                            /\ d[k].method \in {"ANY", req.method} }

\* C16: the route a dispatch selects has the method ANY or the method of the
\* request, and is the first response-handler route, in discovery order, whose
\* pattern matches and whose method is one of these two; a route of another
\* method is never selected; every use() middleware (method ANY) whose pattern
\* matches is in the chain whatever the method of the request.
C16_MethodMatching ==
    pc # "idle" =>
        LET d == DiscoveryOrder(routes[serving])
            allowed == AllowedTerminals(serving, request)
        IN  /\ request.hasMatchedRoute <=> allowed # {}
            /\ request.hasMatchedRoute =>
                  /\ request.matchedRoute = d[Min(allowed)]
                  /\ request.matchedRoute.method \in {"ANY", request.method}
                  /\ \A k \in 1..Len(d) :
                        (d[k].isMiddleware /\ PatternMatches(d[k].fixedPath, request.path))
                            => d[k].method = "ANY" /\ InList(d[k], chain)
            /\ \A i \in 1..Len(chain) : chain[i].method \in {"ANY", request.method}

\* C16 witness: a POST request passed over a GET route whose pattern matches its
\* path and was answered, after a middleware, by the handler of an ANY route
C16_Witness ==
    LET d == DiscoveryOrder(routes[serving])
    IN  /\ pc = "settled" /\ result.state = "resolved"
        /\ request.method = "POST"
        /\ request.matchedRoute.method = "ANY"
        /\ MiddlewareCalls # {} /\ HandlerCalls # {}
        /\ \E k \in 1..Len(d) : /\ ~d[k].isMiddleware
                                /\ d[k].method = "GET"
                                /\ d[k].routeIndex < request.matchedRoute.routeIndex
                                /\ PatternMatches(d[k].fixedPath, request.path)

\* A function middleware registered with use(handler), without a path: of the
\* two use paths of MatchSpec, "/" (no path given) and "/*", the one that does
\* not end in the wildcard
UsedWithoutPath(route) ==
    route.isMiddleware /\ ~route.isHandlerRouter /\ ~EndsWith(route.inputPath, "*")

UsedWithWildcard(route) ==
    route.isMiddleware /\ ~route.isHandlerRouter /\ EndsWith(route.inputPath, "*")

\* C17: a middleware registered with use(handler) and no path is called only for
\* requests whose path is the base path of the router it was registered on ("/"
\* on the root), and a middleware registered on the root with use("/*", handler)
\* is called for every request that reaches a response handler.
C17_UseWithoutPath ==
    /\ \A k \in MiddlewareCalls :
          UsedWithoutPath(chain[invoked[k].pos]) =>
              request.path = basePath[chain[invoked[k].pos].router]
    /\ HandlerCalls # {} =>
          \A j \in 1..Len(routes[0]) :
              UsedWithWildcard(routes[0][j]) =>
                  \E k \in MiddlewareCalls : invoked[k].id = routes[0][j].handler.id

\* A request whose route was found has been settled
SettledWithRoute == pc = "settled" /\ request.hasMatchedRoute

\* C18: when a customResponseBuilder is given to the main router, through the
\* constructor options or by assignment, the response of the build artifact is exactly the value
\* the builder returns for the response state, on the normal path (the response
\* handler has returned) and on the aborted path (a middleware has aborted).
C18_BuilderDecidesResponse ==
    (SettledWithRoute /\ (options[serving].customResponseBuilder
                            \/ customResponseBuilder[serving]))
        => /\ result.state = "resolved"
           /\ result.response = BuilderValue(response)

\* C19: after setCustomResponse(r) the response kind is Custom, and the build
\* artifact of a main router without customResponseBuilder holds r itself.
C19_CustomResponseReturned ==
    response.customResponse # Null
        => /\ response.type = "custom"
           /\ (SettledWithRoute /\ ~customResponseBuilder[serving])
                  => /\ result.state = "resolved"
                     /\ result.response.kind = "custom"
                     /\ result.response.body = response.customResponse

\* The response state is a redirect to the url given, with one of the codes given
IsRedirect(res, code) ==
    /\ res.type = "redirect"
    /\ res.redirectToUrl = "/to"
    /\ res.redirectStatusCode = code

\* C20: redirectTo(url, code) makes the response kind Redirect with the code, 302
\* when it is omitted; no method called on the response afterwards turns the kind
\* back, and the build artifact of a main router without customResponseBuilder is
\* a redirect to the url with the code, whatever setters ran before or after.
C20_RedirectSticks ==
    /\ [][\A op \in ResponseOps :
            (ResponseOp(op) /\ op.method = "redirectTo")
                => IsRedirect(response', IF op.code.given THEN op.code.value ELSE 302)]_vars
    /\ [][(response.type = "redirect" /\ pc' # "loop" /\ request' = request)
            => (/\ response'.type = "redirect"
                /\ response'.redirectToUrl = response.redirectToUrl
                /\ (response'.redirectStatusCode # response.redirectStatusCode
                       => \E op \in ResponseOps : op.method = "redirectTo" /\ ResponseOp(op)))]_vars
    /\ [](( /\ SettledWithRoute /\ result.state = "resolved"
            /\ response.type = "redirect"
            /\ ~customResponseBuilder[serving])
              => /\ result.response.kind = "redirect"
                 /\ result.response.body = response.redirectToUrl
                 /\ result.response.status = response.redirectStatusCode)

\* A handler called text, redirectTo without a code, then setContentType: the
\* artifact is a 302 redirect
C20_Witness ==
    /\ SettledWithRoute /\ result.state = "resolved"
    /\ ~customResponseBuilder[serving]
    /\ handlerOps = 3
    /\ response.body = "ok" /\ response.contentType = "text/html"
    /\ result.response.kind = "redirect" /\ result.response.status = 302

\* C21: a second build() on the same response state returns what the first one
\* returned and does not run the customResponseBuilder again.
C21_BuildIsRepeatable ==
    [][BuildAgain => /\ built'[Len(built')] = built[1]
                     /\ builderCalls' = builderCalls]_vars

\* The routers reached from the routers S by at most n parent links
RECURSIVE Up(_, _)
Up(S, n) ==
    IF n = 0 THEN S ELSE Up(S \cup UNION { parentRouter[x] : x \in S }, n - 1)

\* The root of the tree router r is in: its ancestor, or itself, without a parent
RootOf(r) ==
    CHOOSE a \in Up({r}, Cardinality(DOMAIN parentRouter)) : parentRouter[a] = {}

\* C22: at most one router of a connected tree of mounted routers has
\* isMainRouter = true.
C22_OneMainPerTree ==
    \A r1, r2 \in DOMAIN isMainRouter :
        (isMainRouter[r1] /\ isMainRouter[r2] /\ RootOf(r1) = RootOf(r2)) => r1 = r2

\* C29: a serveRequest call on a router marks it as main when it is not yet, and
\* a later serveRequest call on the same router is not refused with the
\* duplicate-main error and changes no router's isMainRouter.
C29_ServeMarksMainOnce ==
    [][\A r \in Routers, url \in MainUrls :
          ServeRequest(r, "GET", url)
              => /\ isMainRouter'[r]
                 /\ \A q \in Routers \ {r} : isMainRouter'[q] = isMainRouter[q]
                 /\ result'.error # "already a main router"]_vars

\* Two requests were served on the same router, the second while it was main, and
\* both were answered
C29_Witness ==
    /\ pc = "settled" /\ suspended.pc = "settled"
    /\ serving = suspended.serving
    /\ isMainRouter[serving]
    /\ result.state = "resolved" /\ suspended.result.state = "resolved"

\* C30: getMainRouter called on any router returns the root of the router's
\* parent chain when the root is marked main and fails otherwise, also when the
\* router it is called on is marked main itself; when a dispatch finishes, the
\* request is answered if the root of the serving router is marked main and is
\* refused by finishResponse if it is not.
C30_MainIsTheRoot ==
    /\ [](\A r \in Routers :
            LET found == getMainRouter(r)
            IN  /\ found.ok <=> isMainRouter[RootOf(r)]
                /\ found.ok => found.router = RootOf(r) /\ parentRouter[found.router] = {})
    /\ [][(pc = "loop" /\ pc' = "settled" /\ suspended' = suspended
              /\ result'.error # "handler error")
            => IF isMainRouter[RootOf(serving)]
               THEN result'.state = "resolved"
               ELSE result'.state = "rejected" /\ result'.error = "not main router"]_vars

\* A request served on a mounted router, which serveRequest marked main, found
\* its handler and was refused because the root is not main
C30_Witness ==
    /\ SettledWithRoute
    /\ parentRouter[serving] # {} /\ isMainRouter[serving]
    /\ ~isMainRouter[RootOf(serving)]
    /\ result.state = "rejected" /\ result.error = "not main router"

\* The response state after the calls of a log, made in order on the state res
RECURSIVE Replay(_, _)
Replay(res, calls) ==
    IF Len(calls) = 0 THEN res
    ELSE LET c == Head(calls)
             after == IF c.role = "middleware" THEN ApplyEffect(res, c.effect, c.id)
                      ELSE IF c.effect = "text" THEN Text(res, "ok")
                      ELSE res
         IN  Replay(after, Tail(calls))

\* The request and the response of a dispatch are what its own serveRequest call
\* and its own handlers' calls made them
OwnHistory(ctx) ==
    (ctx.pc # "idle" /\ ctx.request.hasMatchedRoute) =>
        /\ ctx.response =
              Replay([NewResponse EXCEPT !.hasMatchedRoute = TRUE,
                                         !.matchedRoute = ctx.request.matchedRoute],
                     ctx.invoked)
        /\ ctx.request.matchedParams =
              MatchParams(ctx.request.matchedRoute.fixedPath, ctx.request.path)
        /\ \A k \in 1..Len(ctx.invoked) :
              ctx.invoked[k].locals \subseteq { ctx.invoked[j].id : j \in 1..(k - 1) }
        /\ ctx.result.state = "resolved"
              => ctx.result.response = FinalResponse(ctx.response)

\* C23: each serveRequest call starts from a fresh response state (kind normal,
\* status 200 "OK", no body, no tasks, empty locals), and with two requests in
\* flight, their steps interleaved, the response state, the locals every handler
\* is given and the matched params of each request are the ones its own calls
\* made, whatever the other request's handlers did.
C23_RequestScoped ==
    /\ [][\A url \in ConcurrentUrls :
            ServeRequest(0, "GET", url)
                => /\ response'.type = "normal"
                   /\ response'.statusCode = 200 /\ response'.status = "OK"
                   /\ response'.body = "undefined" /\ response'.tasks = <<>>
                   /\ response'.locals = {}
                   /\ suspended' = suspended]_vars
    /\ [](OwnHistory(CurrentContext) /\ OwnHistory(suspended))

\* Two requests in flight with different params: one was denied by the middleware
\* and is settled, the other waits in its middleware with an untouched response
C23_Witness ==
    /\ pc = "settled" /\ result.state = "resolved" /\ response.statusCode = 401
    /\ suspended.pc = "awaitNext" /\ suspended.response.statusCode = 200
    /\ suspended.response.body = "undefined"
    /\ request.matchedParams # suspended.request.matchedParams

\* The tasks the middleware calls of a log added, in call order
RECURSIVE MiddlewareTasks(_)
MiddlewareTasks(calls) ==
    IF Len(calls) = 0 THEN <<>>
    ELSE (IF Head(calls).role = "middleware" /\ Head(calls).effect = "task"
          THEN <<Task(Head(calls).id, 0)>> ELSE <<>>)
         \o MiddlewareTasks(Tail(calls))

\* The step is one of the running dispatch: no new request is served, no other
\* request's dispatch is resumed
SameDispatch == pc \in {"loop", "awaitNext", "handler"} /\ suspended' = suspended

\* C24: every task added with addTasks by a middleware or handler that ran, the
\* aborting middleware included, is in the artifact's tasks in the order added:
\* an addTasks call appends to the tasks, no other step of the dispatch changes
\* them, and the artifact holds the tasks of the response when it is built.
C24_TasksKept ==
    /\ [][\A op \in ResponseOps :
            (ResponseOp(op) /\ op.method = "addTasks")
                => /\ Len(response'.tasks) = Len(response.tasks) + 1
                   /\ SubSeq(response'.tasks, 1, Len(response.tasks)) = response.tasks
                   /\ response'.tasks[Len(response'.tasks)].n = handlerOps']_vars
    /\ [][(SameDispatch /\ response'.tasks # response.tasks)
            => \/ \E op \in ResponseOps : op.method = "addTasks" /\ ResponseOp(op)
               \/ \E b \in ResponseMwBehaviours : b.effect = "task" /\ InvokeMiddleware(b)]_vars
    /\ [](pc \in {"handler", "settled"}
            => SubSeq(response.tasks, 1, Len(MiddlewareTasks(invoked)))
                  = MiddlewareTasks(invoked))
    /\ []((pc = "settled" /\ result.state = "resolved") => result.tasks = response.tasks)

\* A middleware added a task and aborted the chain: the artifact holds the task
C24_Witness ==
    /\ pc = "settled" /\ result.state = "resolved"
    /\ ~allMiddlewaresSuccessful
    /\ Len(invoked) = 1 /\ invoked[1].effect = "task"
    /\ result.tasks = <<Task(invoked[1].id, 0)>>

\* The middleware calls that have not signalled continuation: the callback was
\* not called yet
Running == { k \in MiddlewareCalls : invoked[k].arg = Null }

\* C25: within one dispatch a middleware is called only after every middleware
\* called before it has signalled continuation: at most one middleware call, the
\* last call made, is still running, and the calls follow the chain's positions.
C25_OneAtATime ==
    /\ Running \subseteq {Len(invoked)}
    /\ \A j, k \in MiddlewareCalls : j < k => invoked[j].pos < invoked[k].pos
    /\ \A k \in MiddlewareCalls :
          k < Len(invoked) => invoked[k].arg # Null /\ ~invoked[k].threw

\* The first middleware has called its callback, the second is running
C25_Witness ==
    /\ pc = "awaitNext"
    /\ Len(invoked) = 2
    /\ MiddlewareCalls = {1, 2}
    /\ invoked[1].arg # Null
    /\ Running = {2}

\* The route a registration call on router r has just added stores the path p it
\* was given and matches the path fixPath makes of p under r's base path
AddedAs(r, p) ==
    LET new == routes'[r][Len(routes'[r])]
    IN  /\ Len(routes'[r]) = Len(routes[r]) + 1
        /\ new.inputPath = p
        /\ new.fixedPath = fixPath(basePath[r], p)

\* C26: every registration on a router, through a per-method call or through
\* use(p, fn) with a function handler, stores p unchanged as the route's input path
\* and compiles the pattern fixPath(p) with the router's base path applied once,
\* also on a router mounted under a non-root base path.
C26_RegisteredOnce ==
    [][/\ \A r \in Routers, p \in UsePaths, form \in Forms :
            UseFn(r, p, form) => AddedAs(r, p)
       /\ \A r \in Routers, method \in RouteMethods, p \in HandlerPaths :
            Register(r, method, p) => AddedAs(r, p)]_vars

\* The routeIndex of each route of router r, in the order of r's route list
IndexesOf(rts) == [k \in 1..Len(rts) |-> rts[k].routeIndex]

\* C27: a route's routeIndex never changes after registration: a later registration
\* extends a router's route list and a mount rebuilds the mounted router's list
\* with every route, the one registered first included, keeping its routeIndex.
C27_RouteIndexKept ==
    [][\A r \in Routers :
          /\ Len(routes'[r]) >= Len(routes[r])
          /\ SubSeq(IndexesOf(routes'[r]), 1, Len(routes[r])) = IndexesOf(routes[r])]_vars

\* Input paths given to fixPath
TestPaths ==
    { <<>>, <<"/">>, <<"a">>, <<"/", "a">>, <<"/", "a", "/">>, <<"/", "*">>,
      <<"/", "a", "?">>, <<"/", "(", "a", ")">>, <<"/", ":", "p">> }

\* C28: fixPath is idempotent on every router, fixPath(fixPath(p)) = fixPath(p)
\* for every input path p, and a result ending in "*", ")" or "?" has no trailing
\* slash appended.
C28_FixPathIdempotent ==
    \A r \in Routers, p \in TestPaths :
        LET once == fixPath(basePath[r], p)
        IN  /\ fixPath(basePath[r], once) = once
            /\ (\E char \in NO_APPEND_SLASH_IF_CHARACTERS :
                   EndsWith(basePath[r] \o (IF StartsWith(p, "/") THEN Slice1(p) ELSE p), char))
                  => ~EndsWith(once, "/")

\* C31: the params and the route of the response handler of a request are on the
\* request and the response before the first middleware is called: at every
\* middleware call the request holds the first matching response-handler route in
\* discovery order and the params its pattern gives for the path, the response
\* holds the route, and the handler called in the end is that route's.
C31_MatchAttachedFirst ==
    /\ [][\A b \in MatchBehaviours :
            InvokeMiddleware(b) =>
                LET d == DiscoveryOrder(routes[serving])
                    cands == TerminalCandidates(serving, request)
                IN  /\ cands # {}
                    /\ request.hasMatchedRoute
                    /\ request.matchedRoute = d[Min(cands)]
                    /\ request.matchedParams
                          = MatchParams(d[Min(cands)].fixedPath, request.path)
                    /\ response.hasMatchedRoute
                    /\ response.matchedRoute = d[Min(cands)]
                    /\ request' = request]_vars
    /\ [](\A h \in HandlerCalls : invoked[h].id = request.matchedRoute.handler.id)

\* A middleware is running for a request whose response handler has params
C31_Witness ==
    /\ pc = "awaitNext"
    /\ MiddlewareCalls # {}
    /\ Len(request.matchedParams) = 2
    /\ request.matchedParams[1].value # request.matchedParams[2].value

\* The requests served on the tree with routes that lead into a router
RouterRouteRequests == { NewRequest("GET", url) : url \in RouterRouteUrls }

\* C32: a route whose handler is a Router, registered with use or with a
\* per-method call, is in no result of findMatchingRoutes, in no middleware chain,
\* and is no request's response handler: no call is ever made for it.
C32_RouterRouteNeverRuns ==
    /\ \A req \in RouterRouteRequests :
          LET found == findMatchingRoutes(0, req)
          IN  \A k \in 1..Len(found) : found[k].handler.kind = "fn"
    /\ \A k \in 1..Len(chain) : chain[k].handler.kind = "fn"
    /\ request.hasMatchedRoute => request.matchedRoute.handler.kind = "fn"
    /\ \A k \in 1..Len(invoked) :
          \A r \in Routers : \A i \in 1..Len(routes[r]) :
              routes[r][i].routeIndex = invoked[k].routeIndex
                  => routes[r][i].handler.kind = "fn"

\* The handler of a route of router 1 was called after a middleware of router 1;
\* router 1 was given to get and never to use, so it is reached through a
\* per-method route only
C32_Witness ==
    /\ HandlerCalls # {} /\ MiddlewareCalls # {}
    /\ request.matchedRoute.router = 1
    /\ \E k \in 1..Len(chain) : chain[k].router = 1
    /\ parentRouter[1] = {}
    /\ \E i \in 1..Len(routes[0]) :
          /\ routes[0][i].handler.kind = "router"
          /\ ~routes[0][i].isMiddleware

\* The step belongs to the dispatch of a request: serveRequest or a later step
DispatchStep == dispatchVars' # dispatchVars

\* C33: dispatching a request never modifies the route tree: the routes lists with
\* every route's pattern, method, middleware flag and routeIndex, every router's
\* basePath and parentRouter and the global lastRouteIndex are unchanged by every
\* step of a dispatch; the only router field changed is isMainRouter of the
\* serving router, set by the serveRequest step when it was not set.
C33_DispatchKeepsTree ==
    [][DispatchStep =>
          /\ routes' = routes
          /\ basePath' = basePath
          /\ parentRouter' = parentRouter
          /\ lastRouteIndex' = lastRouteIndex
          /\ customResponseBuilder' = customResponseBuilder
          /\ \A r \in Routers :
                isMainRouter'[r] # isMainRouter[r]
                    => /\ r = serving' /\ isMainRouter'[r]
                       /\ pc \in {"idle", "settled", "hung"}
                       /\ invoked' = <<>>]_vars

\* A request was served on a tree with a mounted router: middleware of both
\* routers and a response handler were called, router 0 alone is main
C33_Witness ==
    /\ pc = "settled" /\ result.state = "resolved"
    /\ isMainRouter[0] /\ ~isMainRouter[1]
    /\ parentRouter[1] = {0}
    /\ HandlerCalls # {}
    /\ \E k \in MiddlewareCalls : \E i \in 1..Len(routes[1]) :
          routes[1][i].routeIndex = invoked[k].routeIndex

\* The middleware routes of the tree of router r that match req
MatchingMiddleware(r, req) ==
    LET d == DiscoveryOrder(routes[r])
    IN  { k \in 1..Len(d) : d[k].isMiddleware /\ matchesRequest(d[k], req) }

\* C34: when no response-handler route matches a request, no middleware is called
\* for it, matching middleware included: the request is refused at once with an
\* empty chain.
C34_NoHandlerNoMiddleware ==
    (pc # "idle" /\ TerminalCandidates(serving, request) = {}) =>
        /\ invoked = <<>>
        /\ chain = <<>>
        /\ pc = "settled"
        /\ result.state = "rejected"

\* A request that a use("/*", fn) middleware matches and no response handler
\* does was settled without a call
C34_Witness ==
    /\ pc = "settled"
    /\ TerminalCandidates(serving, request) = {}
    /\ MatchingMiddleware(serving, request) # {}
    /\ invoked = <<>>

\* No element occurs twice in the list
NoDuplicates(list) ==
    \A i, j \in 1..Len(list) : list[i] = list[j] => i = j

\* C35: whatever the tree, a router mounted more than once included, a request
\* calls each registered middleware route at most once, and each route occurs at
\* most once in the list findMatchingRoutes returns for it.
C35_EachRouteOnce ==
    /\ \A i, j \in MiddlewareCalls : invoked[i].id = invoked[j].id => i = j
    /\ pc # "idle" => NoDuplicates(findMatchingRoutes(serving, request))

\* The middleware calls whose continuation callback has been called
Decided == { k \in MiddlewareCalls : invoked[k].arg # Null }

\* A continuation callback is called again in this step
RepeatStep ==
    /\ Len(invoked') = Len(invoked)
    /\ \E k \in 1..Len(invoked) : invoked'[k].later # invoked[k].later

\* C36: when an explicit-control middleware calls its continuation callback more
\* than once, at once or after the chain has moved on, only the first call counts:
\* every place of the chain and the response handler are called at most once, the
\* dispatch is aborted exactly when the first argument of some callback said so,
\* nothing is called after such a callback, and a later call of a callback leaves
\* the position in the chain, the decision and the outcome as they were.
C36_FirstCallbackCounts ==
    /\ [](/\ \A i, j \in 1..Len(invoked) :
                (invoked[i].role = invoked[j].role /\ invoked[i].pos = invoked[j].pos)
                    => i = j
          /\ allMiddlewaresSuccessful = (\A k \in Decided : ResolveValue(invoked[k].arg))
          /\ \A k \in Decided :
                ~ResolveValue(invoked[k].arg) => (k = Len(invoked) /\ pc = "settled")
          /\ HandlerCalls # {} =>
                \A p \in 1..Len(chain) : \E k \in Decided : invoked[k].pos = p)
    /\ [][RepeatStep => UNCHANGED <<pc, idx, allMiddlewaresSuccessful, pendingArg,
                                    response, result, chain>>]_vars

\* A middleware continued, called its callback again to abort, and the request
\* was answered by the response handler after a later middleware
C36_Witness ==
    /\ pc = "settled" /\ result.state = "resolved"
    /\ HandlerCalls # {}
    /\ \E k \in Decided :
          /\ ResolveValue(invoked[k].arg)
          /\ \E n \in 1..Len(invoked[k].later) : ~ResolveValue(invoked[k].later[n])
          /\ k < Len(invoked) - 1

\* Both chains are mounted in full, the two children at the same path
OrderMounted ==
    /\ \A c \in OrderChildren \cup OrderGrandchildren : parentRouter[c] # {}
    /\ routes[0][1].inputPath = routes[3][1].inputPath

\* The route router r makes of get(path, handler) as it stands
RouteNow(r, path) ==
    NewRoute(r, basePath[r], path, "GET", FnHandler(0, "auto"), FALSE, NoIndex, lastRouteIndex)

\* C37: mount order does not matter for nested routers: once both chains are
\* mounted at the same paths, grandchild on child and child on root in whichever
\* order each, the
\* children have the same base path, the grandchildren have the same base path,
\* and a route of one grandchild matches exactly the requests the same route of
\* the other matches.
C37_MountOrderIrrelevant ==
    OrderMounted =>
        /\ basePath[1] = basePath[4]
        /\ basePath[2] = basePath[5]
        /\ \A path \in HandlerPaths, req \in TestRequests :
              matchesRequest(RouteNow(2, path), req) = matchesRequest(RouteNow(5, path), req)

\* The step in which processRequest returns the artifact of finishResponse
ReturnsArtifact ==
    /\ pc # "settled" /\ pc' = "settled"
    /\ suspended' = suspended
    /\ result'.state = "resolved"

\* C38: a dispatch that returns an artifact has called RouterResponse.build
\* exactly once and the customResponseBuilder of the main router at most once,
\* whether a middleware aborted or the response handler ran.
C38_OneBuildOneBuilderCall ==
    [][ReturnsArtifact => (Len(built') = 1 /\ builderCalls' <= 1)]_vars

====
